---- MODULE Spec2Model ----
(***************************************************************************)
(* Model of src/main.py: the retrieval-augmented pipeline (chunk_text,     *)
(* embed_text, retrieve_similar_chunks, query_gemini) and the two request  *)
(* handlers process_onedrive_document and rag_query.                       *)
(*                                                                         *)
(* Text is a sequence of one-character strings.  The optional value of a   *)
(* JSON field is a record [some, val]; dict.get of an absent key is None.  *)
(***************************************************************************)
EXTENDS Integers, Sequences, FiniteSets, TLC

\* ------------------------------------------------------------------ bounds
MaxTextLen == 6
MaxChunkSize == 4
MaxModelLoads == 4
DocAWords == 300
PageWords == 400

\* ------------------------------------------------------- program constants
DefaultChunkSize == 500
DefaultTopK == 3

VARIABLES
    index,          \* the Pinecone index: record id -> [values, metadata]
    modelLoads,     \* how many times SentenceTransformer(...) was constructed
    req,            \* body of the request handled last
    resp,           \* response to the request handled last
    calls,          \* calls to collaborators made by the handler that ran last
    document_text,  \* text the handler that ran last got from the loader
    results,        \* what index.query returned to the handler that ran last
    context,        \* what retrieve_similar_chunks returned last
    response,       \* what requests.post returned to query_gemini last
    prevIndex,      \* the index as it was when the last handler started
    in_text,        \* chunk_text call: argument text
    in_chunk_size,  \* chunk_text call: argument chunk_size
    chunked,        \* chunk_text call: outcome
    pc              \* chunk_text call: "call" before, "done" after

vars == <<index, modelLoads, req, resp, calls, document_text, results, context,
          response, prevIndex, in_text, in_chunk_size, chunked, pc>>
serviceVars == <<index, modelLoads, req, resp, calls, document_text, results,
                 context, response, prevIndex>>
chunkVars == <<in_text, in_chunk_size, chunked, pc>>

\* ------------------------------------------------------------- characters
Whitespace == {" ", "\n"}
Letters == {"a", "b"}
Alphabet == Letters \cup Whitespace

Min(a, b) == IF a < b THEN a ELSE b

\* ------------------------------------------------ str.split() (main.py:83)
\* A word starts at every non-whitespace character that is first in the text
\* or follows a whitespace character, and runs up to the next whitespace
\* character or the end of the text: runs of whitespace separate words and
\* produce no empty word, leading and trailing whitespace is dropped.
IsWordStart(text, i) ==
    /\ text[i] \notin Whitespace
    /\ (i = 1 \/ text[i - 1] \in Whitespace)

\* the word starts within lo..hi, in increasing order
RECURSIVE WordStarts(_, _, _)
WordStarts(text, lo, hi) ==
    IF lo > hi THEN <<>>
    ELSE IF lo = hi
         THEN IF IsWordStart(text, lo) THEN <<lo>> ELSE <<>>
         ELSE LET mid == (lo + hi) \div 2
              IN  WordStarts(text, lo, mid) \o WordStarts(text, mid + 1, hi)

\* the last position of the word that starts at i
RECURSIVE WordEnd(_, _)
WordEnd(text, i) ==
    IF i = Len(text) \/ text[i + 1] \in Whitespace THEN i
    ELSE WordEnd(text, i + 1)

Split(text) ==
    LET starts == WordStarts(text, 1, Len(text))
    IN  [k \in 1..Len(starts) |-> SubSeq(text, starts[k], WordEnd(text, starts[k]))]

\* -------------------------------------------- sep.join(list) (main.py:85)
\* parts[lo] sep parts[lo+1] sep ... parts[hi]
RECURSIVE JoinRange(_, _, _, _)
JoinRange(sep, parts, lo, hi) ==
    IF lo > hi THEN <<>>
    ELSE IF lo = hi THEN parts[lo]
         ELSE LET mid == (lo + hi) \div 2
              IN  JoinRange(sep, parts, lo, mid) \o sep
                      \o JoinRange(sep, parts, mid + 1, hi)

Join(sep, parts) == JoinRange(sep, parts, 1, Len(parts))

\* words[i:i + chunk_size], a Python slice with 0-based start i (main.py:85)
Slice(words, i, j) == SubSeq(words, i + 1, Min(j, Len(words)))

\* the loop "for i in range(0, len(words), step)" of chunk_text
RECURSIVE ChunkLoop(_, _, _, _, _)
ChunkLoop(words, i, step, chunk_size, chunks) ==
    IF i >= Len(words) THEN chunks
    ELSE ChunkLoop(words, i + step, step, chunk_size,
                   Append(chunks, Join(<<" ">>, Slice(words, i, i + chunk_size))))

\* chunk_text with windows that do not overlap (step = chunk_size)
chunk_text_no_overlap(text, chunk_size) ==
    LET words == Split(text)
    IN  IF chunk_size = 0
        THEN [raised |-> "ValueError", chunks |-> <<>>]
        ELSE [raised |-> "",
              chunks |-> ChunkLoop(words, 0, chunk_size, chunk_size, <<>>)]

\* chunk_text(text, chunk_size): range() raises ValueError on a zero step
chunk_text(text, chunk_size) ==
    LET words == Split(text)
        step == chunk_size \div 2
    IN  IF step = 0
        THEN [raised |-> "ValueError", chunks |-> <<>>]
        ELSE [raised |-> "", chunks |-> ChunkLoop(words, 0, step, chunk_size, <<>>)]

\* ======================================================================
\* values of the request layer
\* ======================================================================
\* the value of dict.get(key): None, or the string found under key
None == [some |-> FALSE, val |-> <<>>]
Just(v) == [some |-> TRUE, val |-> v]

\* Python truth value of an optional string: None and "" are false
Truthy(o) == o.some /\ o.val # <<>>

\* req_body.get(key) and req_body.get(key, default) on a JSON object
Get(body, key) ==
    IF key \in DOMAIN body.fields THEN Just(body.fields[key]) ELSE None
GetOr(body, key, default) ==
    IF key \in DOMAIN body.fields THEN Just(body.fields[key]) ELSE Just(default)

\* request bodies: not JSON at all, a JSON array, or a JSON object with
\* string fields
NotJson == [kind |-> "invalid", fields |-> <<>>]
JsonList == [kind |-> "list", fields |-> <<>>]
JsonObject(f) == [kind |-> "dict", fields |-> f]

DriveIds == {<<>>, <<"d">>}
ObjectIds == {<<>>, <<"x">>}
Queries == {<<>>, <<"a">>}

IngestBodies ==
    {NotJson, JsonList}
    \cup {JsonObject(f) : f \in UNION {[K -> {<<>>}] : K \in SUBSET {"drive_id", "object_id"}}}
    \cup {JsonObject([drive_id |-> d, object_id |-> o]) : d \in DriveIds, o \in ObjectIds}
    \cup {JsonObject([object_id |-> o]) : o \in ObjectIds}
    \cup {JsonObject([drive_id |-> d]) : d \in DriveIds}

QueryBodies ==
    {NotJson, JsonList, JsonObject(<<>>)}
    \cup {JsonObject([query |-> q]) : q \in Queries}

\* ======================================================================
\* collaborators
\* ======================================================================
\* n copies of the word w separated by sep
Words(n, w, sep) == [i \in 1..(2 * n - 1) |-> IF i % 2 = 1 THEN w ELSE sep]

\* what loader.load() can give: an exception, or the page contents of the
\* documents found (none, one page, two pages)
LoaderOutcomes ==
    { [raised |-> TRUE, pages |-> <<>>],
      [raised |-> FALSE, pages |-> <<>>],
      [raised |-> FALSE, pages |-> <<Words(DocAWords, "a", " ")>>],
      [raised |-> FALSE, pages |-> <<Words(PageWords, "b", "\n"),
                                     Words(PageWords, "b", " ")>>] }

\* document_text = " ".join([doc.page_content for doc in documents])
DocumentText(pages) == Join(<<" ">>, pages)

\* chunk_text(document_text), tabulated over the texts the loader can give
DocumentChunks ==
    [t \in {DocumentText(l.pages) : l \in LoaderOutcomes} |->
        chunk_text(t, DefaultChunkSize)]

\* model.encode(text): a vector that depends on the text only
Encode(t) == <<Len(t), Cardinality({i \in 1..Len(t) : t[i] = "a"})>>

\* embeddings of a list of texts, one per text, in order
EncodeAll(text_chunks) == [k \in 1..Len(text_chunks) |-> Encode(text_chunks[k])]

\* str(i) for i >= 0
Digit(d) == CASE d = 0 -> "0" [] d = 1 -> "1" [] d = 2 -> "2" [] d = 3 -> "3"
              [] d = 4 -> "4" [] d = 5 -> "5" [] d = 6 -> "6" [] d = 7 -> "7"
              [] d = 8 -> "8" [] d = 9 -> "9"
RECURSIVE Str(_)
Str(i) == IF i < 10 THEN <<Digit(i)>> ELSE Append(Str(i \div 10), Digit(i % 10))

\* a record id that leaves the chunk index out
RecordId_no_chunk_index(object_id, i) == object_id \o <<"_">> \o Str(0)

\* f"{object_id}_{i}"
RecordId(object_id, i) == object_id \o <<"_">> \o Str(i)

\* index.upsert([(id, values, metadata)]): insert, or replace the record of id
Upsert(idx, id, values, metadata) ==
    [r \in DOMAIN idx \cup {id} |->
        IF r = id THEN [values |-> values, metadata |-> metadata] ELSE idx[r]]

\* the index after the upserts of chunks 0 .. k-1 of the loop at main.py:128
RECURSIVE UpsertChunks(_, _, _, _, _)
UpsertChunks(idx, object_id, text_chunks, embeddings, k) ==
    IF k = 0 THEN idx
    ELSE Upsert(UpsertChunks(idx, object_id, text_chunks, embeddings, k - 1),
                RecordId(object_id, k - 1), embeddings[k],
                [text |-> text_chunks[k]])

\* the upsert calls of the loop: chunks 0 .. k-1 succeed; when failed, the
\* call for chunk k raises and ends the loop
UpsertCalls(object_id, k, failed) ==
    [j \in 1..(IF failed THEN k + 1 ELSE k) |->
        [op |-> "index.upsert", arg |-> RecordId(object_id, j - 1), ok |-> j <= k]]

\* injective sequences of length n over S
Arrangements(S, n) ==
    {m \in [1..n -> S] : \A a, b \in 1..n : a # b => m[a] # m[b]}

\* index.query(vector, top_k, include_metadata=True): an exception, a result
\* without a matches field, or at most top_k records in the order the index
\* ranks them (the ranking is the index's own)
IndexQuery(idx, vector, top_k) ==
    { [returned |-> FALSE, has_matches |-> FALSE, matches |-> <<>>],
      [returned |-> TRUE, has_matches |-> FALSE, matches |-> <<>>] }
    \cup { [returned |-> TRUE, has_matches |-> TRUE, matches |-> m] :
             m \in UNION {Arrangements(DOMAIN idx, n) :
                            n \in 0..Min(top_k, Cardinality(DOMAIN idx))} }

\* responses of the generative-answer service to requests.post: unreachable
\* (post raises), or a status code with a body; on 200 the body may or may
\* not hold candidates[0].content.parts[0].text
GeminiOutcomes ==
    { [reachable |-> FALSE, status_code |-> 0, well_formed |-> FALSE, text |-> <<>>],
      [reachable |-> TRUE, status_code |-> 200, well_formed |-> TRUE, text |-> <<"o", "k">>],
      [reachable |-> TRUE, status_code |-> 200, well_formed |-> FALSE, text |-> <<"{", "}">>],
      [reachable |-> TRUE, status_code |-> 429, well_formed |-> FALSE, text |-> <<"q">>],
      [reachable |-> TRUE, status_code |-> 500, well_formed |-> FALSE, text |-> <<>>] }

\* ======================================================================
\* retrieve_similar_chunks and query_gemini
\* ======================================================================
NoResults == [returned |-> FALSE, has_matches |-> FALSE, matches |-> <<>>]
NoResponse == [reachable |-> FALSE, status_code |-> 0, well_formed |-> FALSE, text |-> <<>>]

\* [match["metadata"]["text"] for match in results.get("matches", [])]
retrieved_texts(idx, res) ==
    [k \in 1..Len(res.matches) |-> idx[res.matches[k]].metadata.text]

\* retrieve_similar_chunks with the texts joined by a space
retrieve_similar_chunks_spaced(idx, res) == Join(<<" ">>, retrieved_texts(idx, res))

\* retrieve_similar_chunks, given the result of its index.query call
retrieve_similar_chunks(idx, res) == Join(<<"\n">>, retrieved_texts(idx, res))

ErrorPrefix == <<"E", "r", "r", "o", "r", ":", " ">>

\* query_gemini, given the outcome of its requests.post call: the returned
\* string, or the exception that leaves the function
query_gemini(r) ==
    IF ~r.reachable THEN [raised |-> "ConnectionError", value |-> <<>>]
    ELSE IF r.status_code = 200
         THEN IF r.well_formed
              THEN [raised |-> "", value |-> r.text]
              ELSE [raised |-> "KeyError", value |-> <<>>]
         ELSE [raised |-> "", value |-> ErrorPrefix \o r.text]

\* ======================================================================
\* the request handlers
\* ======================================================================
Call(op, arg, ok) == [op |-> op, arg |-> arg, ok |-> ok]

\* an except clause that swallows the exception and answers success
IngestExcept_swallow(exc) == 200

\* "except Exception as e: raise HTTPException(status_code=500, ...)" of
\* process_onedrive_document: every exception raised inside the try block,
\* the HTTPException(400) of the validation included, leaves as a 500
IngestExcept(exc) == 500

\* an except clause that reports a server error
QueryExcept_server_error(exc) == 500

\* "except Exception as e: raise HTTPException(status_code=400, ...)" of
\* rag_query, around the parsing and validation of the body only
QueryExcept(exc) == 400

\* an exception that no handler catches: the framework answers 500
Unhandled(exc) == 500

\* POST /process_onedrive_document
ProcessOnedriveDocument ==
    /\ modelLoads < MaxModelLoads
    /\ \E body \in IngestBodies :
        /\ req' = body
        /\ prevIndex' = index
        /\ results' = NoResults
        /\ context' = <<>>
        /\ response' = NoResponse
        /\ UNCHANGED chunkVars
        /\ IF body.kind # "dict"
           THEN \* request.json() raises, or a list has no .get
                /\ resp' = [endpoint |-> "process_onedrive_document",
                            status |-> IngestExcept("Exception"), answer |-> None]
                /\ calls' = <<>>
                /\ document_text' = <<>>
                /\ UNCHANGED <<index, modelLoads>>
           ELSE LET drive_id == Get(body, "drive_id")
                    object_id == Get(body, "object_id")
                IN  IF ~Truthy(drive_id) \/ ~Truthy(object_id)
                    THEN \* raise HTTPException(status_code=400), inside the try
                         /\ resp' = [endpoint |-> "process_onedrive_document",
                                     status |-> IngestExcept("HTTPException400"),
                                     answer |-> None]
                         /\ calls' = <<>>
                         /\ document_text' = <<>>
                         /\ UNCHANGED <<index, modelLoads>>
                    ELSE \E loaded \in LoaderOutcomes :
                         IF loaded.raised
                         THEN /\ resp' = [endpoint |-> "process_onedrive_document",
                                          status |-> IngestExcept("Exception"),
                                          answer |-> None]
                              /\ calls' = <<Call("loader.load", object_id.val, FALSE)>>
                              /\ document_text' = <<>>
                              /\ UNCHANGED <<index, modelLoads>>
                         ELSE LET doc_text == DocumentText(loaded.pages)
                                  text_chunks == DocumentChunks[doc_text].chunks
                                  embeddings == EncodeAll(text_chunks)
                              IN  /\ document_text' = doc_text
                                  \* embed_text constructs SentenceTransformer anew
                                  /\ modelLoads' = modelLoads + 1
                                  /\ \E model_ok \in BOOLEAN :
                                     IF ~model_ok
                                     THEN /\ resp' = [endpoint |-> "process_onedrive_document",
                                                      status |-> IngestExcept("Exception"),
                                                      answer |-> None]
                                          /\ calls' = <<Call("loader.load", object_id.val, TRUE),
                                                        Call("SentenceTransformer", <<>>, FALSE)>>
                                          /\ UNCHANGED index
                                     ELSE \E k \in 0..Len(text_chunks) :
                                          LET failed == k < Len(text_chunks)
                                          IN  /\ index' = UpsertChunks(index, object_id.val,
                                                                       text_chunks, embeddings, k)
                                              /\ calls' = <<Call("loader.load", object_id.val, TRUE),
                                                            Call("SentenceTransformer", <<>>, TRUE),
                                                            Call("model.encode", <<>>, TRUE)>>
                                                          \o UpsertCalls(object_id.val, k, failed)
                                              /\ resp' = [endpoint |-> "process_onedrive_document",
                                                          status |-> IF failed
                                                                     THEN IngestExcept("Exception")
                                                                     ELSE 200,
                                                          answer |-> None]

\* POST /rag_query
RagQuery ==
    \E body \in QueryBodies :
        /\ req' = body
        /\ prevIndex' = index
        /\ document_text' = <<>>
        /\ UNCHANGED <<index, modelLoads>>
        /\ UNCHANGED chunkVars
        /\ IF body.kind # "dict" \/ ~Truthy(GetOr(body, "query", <<>>))
           THEN \* request.json() or .get raises, or ValueError("Missing query")
                /\ resp' = [endpoint |-> "rag_query",
                            status |-> QueryExcept("Exception"), answer |-> None]
                /\ calls' = <<>>
                /\ results' = NoResults
                /\ context' = <<>>
                /\ response' = NoResponse
           ELSE LET user_query == GetOr(body, "query", <<>>).val
                IN  \E res \in IndexQuery(index, <<Encode(user_query)>>, DefaultTopK) :
                    /\ results' = res
                    /\ IF ~res.returned
                       THEN /\ resp' = [endpoint |-> "rag_query",
                                        status |-> Unhandled("Exception"), answer |-> None]
                            /\ calls' = <<Call("embedding_model.encode", user_query, TRUE),
                                          Call("index.query", <<>>, FALSE)>>
                            /\ context' = <<>>
                            /\ response' = NoResponse
                       ELSE /\ context' = retrieve_similar_chunks(index, res)
                            /\ \E r \in GeminiOutcomes :
                                LET answer == query_gemini(r)
                                IN  /\ response' = r
                                    /\ calls' = <<Call("embedding_model.encode", user_query, TRUE),
                                                  Call("index.query", <<>>, TRUE),
                                                  Call("requests.post", <<>>, r.reachable)>>
                                    /\ resp' = IF answer.raised # ""
                                               THEN [endpoint |-> "rag_query",
                                                     status |-> Unhandled(answer.raised),
                                                     answer |-> None]
                                               ELSE [endpoint |-> "rag_query", status |-> 200,
                                                     answer |-> Just(answer.value)]

\* ======================================================================
\* chunk_text as a pure function: every text and chunk_size within bounds
\* ======================================================================
RECURSIVE SeqsUpTo(_, _)
SeqsUpTo(S, n) ==
    IF n = 0 THEN {<<>>}
    ELSE LET shorter == SeqsUpTo(S, n - 1)
         IN  shorter \cup {Append(t, c) : t \in {u \in shorter : Len(u) = n - 1}, c \in S}

Texts == SeqsUpTo(Alphabet, MaxTextLen)

NoResult == [raised |-> "", chunks |-> <<>>]

\* ---- the service part, before any request
ServiceIdle ==
    /\ index = <<>>
    /\ prevIndex = <<>>
    /\ modelLoads = 1
    /\ req = [kind |-> "none", fields |-> <<>>]
    /\ resp = [endpoint |-> "none", status |-> 0, answer |-> None]
    /\ calls = <<>>
    /\ document_text = <<>>
    /\ results = NoResults
    /\ context = <<>>
    /\ response = NoResponse

ChunkInit ==
    /\ in_text \in Texts
    /\ in_chunk_size \in 0..MaxChunkSize
    /\ chunked = NoResult
    /\ pc = "call"
    /\ ServiceIdle

CallChunkText ==
    /\ pc = "call"
    /\ chunked' = chunk_text(in_text, in_chunk_size)
    /\ pc' = "done"
    /\ UNCHANGED <<in_text, in_chunk_size>>
    /\ UNCHANGED serviceVars

ChunkNext == CallChunkText

ChunkSpec == ChunkInit /\ [][ChunkNext]_vars

\* ---- what the claims about chunk_text speak of
\* the parts written out one after the other with sep between neighbours
RECURSIVE Interleave(_, _)
Interleave(sep, ws) ==
    IF ws = <<>> THEN <<>>
    ELSE IF Len(ws) = 1 THEN ws[1]
         ELSE ws[1] \o <<sep>> \o Interleave(sep, Tail(ws))

Spaced(ws) == Interleave(" ", ws)

InWords == Split(in_text)
InStep == in_chunk_size \div 2
\* number of starts 0, step, 2*step, ... below n
StartsBelow(n, step) == (n + step - 1) \div step

\* C1: a text of n words, 1 <= n < chunk_size, yields exactly one chunk, made
\* of all n words in their original order.
C1_ShortTextOneChunk ==
    (pc = "done" /\ 1 <= Len(InWords) /\ Len(InWords) < in_chunk_size)
        => /\ chunked.raised = ""
           /\ Len(chunked.chunks) = 1
           /\ chunked.chunks[1] = Spaced(InWords)

C10_PositiveSizeAccepted ==
    (pc = "done" /\ in_chunk_size >= 1) => chunked.raised = ""

\* ======================================================================
\* the service: requests handled one after the other
\* ======================================================================
Init ==
    /\ ServiceIdle
    /\ in_text = <<>>
    /\ in_chunk_size = DefaultChunkSize
    /\ chunked = NoResult
    /\ pc = "call"

Next == ProcessOnedriveDocument \/ RagQuery

Spec == Init /\ [][Next]_vars

\* ======================================================================
\* properties of the handlers
\* ======================================================================
Ingested == resp.endpoint = "process_onedrive_document"
Queried == resp.endpoint = "rag_query"
Called(op) == \E p \in 1..Len(calls) : calls[p].op = op

\* the record the loop stores for chunk k (1-based) of text_chunks
ChunkRecord(text_chunks, k) ==
    [values |-> Encode(text_chunks[k]), metadata |-> [text |-> text_chunks[k]]]

\* idx holds, under the ids of object_id, exactly the records of text_chunks
HoldsChunks(idx, object_id, text_chunks) ==
    \A k \in 1..Len(text_chunks) :
        /\ RecordId(object_id, k - 1) \in DOMAIN idx
        /\ idx[RecordId(object_id, k - 1)] = ChunkRecord(text_chunks, k)

ReqObjectId == Get(req, "object_id").val
ReqChunks == DocumentChunks[document_text].chunks

\* C2: an ingestion request without drive_id or without object_id (missing
\* or empty) is answered 400 and makes no load, embedding or upsert.
C2_MissingFieldIsClientError ==
    (/\ Ingested
     /\ req.kind = "dict"
     /\ (~Truthy(Get(req, "drive_id")) \/ ~Truthy(Get(req, "object_id"))))
        => /\ resp.status = 400
           /\ calls = <<>>
           /\ index = prevIndex

Contains(s, t) ==
    \E i \in 1..(Len(s) - Len(t) + 1) : SubSeq(s, i, i + Len(t) - 1) = t

\* C3: whatever the answer service does on the one call made to it, the
\* query request ends with a text answer (status 200); on a non-success
\* status the answer contains the service's raw payload.
C3_AnswerAlwaysText ==
    (Queried /\ Called("requests.post"))
        => /\ resp.status = 200
           /\ resp.answer.some
           /\ (response.reachable /\ response.status_code # 200
                 => Contains(resp.answer.val, response.text))

\* C4: the embedding model is constructed once, at startup, and no request
\* handler constructs it again.
C4_ModelLoadedOnce ==
    /\ modelLoads = 1
    /\ ~Called("SentenceTransformer")

\* C5: a successful ingestion leaves, under the ids derived from
\* (object_id, chunk index), one record per chunk with that chunk's vector and
\* text and touches no other record; when the index already held the records
\* of the same object_id and text, the ingestion leaves the index exactly as
\* it was, with no record added.
C5_IngestIdempotent ==
    (Ingested /\ resp.status = 200)
        => LET ids == {RecordId(ReqObjectId, k - 1) : k \in 1..Len(ReqChunks)}
           IN  /\ HoldsChunks(index, ReqObjectId, ReqChunks)
               /\ Cardinality(ids) = Len(ReqChunks)
               /\ DOMAIN index = DOMAIN prevIndex \cup ids
               /\ \A r \in DOMAIN prevIndex \ ids : index[r] = prevIndex[r]
               /\ (HoldsChunks(prevIndex, ReqObjectId, ReqChunks)
                     => /\ index = prevIndex
                        /\ Cardinality(DOMAIN index) = Cardinality(DOMAIN prevIndex))

\* a document of several chunks ingested again over its own records
C5_Witness ==
    /\ Ingested
    /\ resp.status = 200
    /\ Len(ReqChunks) >= 2
    /\ HoldsChunks(prevIndex, ReqObjectId, ReqChunks)
    /\ index = prevIndex

\* C6: when the upsert of chunk k fails, it is the last upsert attempted, the
\* request is answered 500, and the records of chunks 0..k-1 are in the index.
C6_FailedUpsertAborts ==
    \A p \in 1..Len(calls) :
        (Ingested /\ calls[p].op = "index.upsert" /\ ~calls[p].ok)
            => LET k == Cardinality({q \in 1..(p - 1) : calls[q].op = "index.upsert"})
               IN  /\ p = Len(calls)
                   /\ calls[p].arg = RecordId(ReqObjectId, k)
                   /\ \A q \in 1..Len(calls), j \in (k + 1)..(Len(ReqChunks) - 1) :
                        calls[q].arg # RecordId(ReqObjectId, j)
                   /\ resp.status = 500
                   /\ HoldsChunks(index, ReqObjectId, SubSeq(ReqChunks, 1, k))

\* the upsert of a middle chunk fails: chunks before it were stored, chunks
\* after it exist
C6_Witness ==
    /\ Ingested
    /\ Len(calls) >= 2
    /\ calls[Len(calls)].op = "index.upsert"
    /\ ~calls[Len(calls)].ok
    /\ calls[Len(calls) - 1].op = "index.upsert"
    /\ calls[Len(calls)].arg # RecordId(ReqObjectId, Len(ReqChunks) - 1)
    /\ index # prevIndex

\* C8: a query request whose body is not JSON, or has no query or an empty
\* one, is answered 400; the index is not queried, the answer service is not
\* called and the index is unchanged.
C8_BadQueryIsClientError ==
    (Queried /\ (req.kind # "dict" \/ ~Truthy(GetOr(req, "query", <<>>))))
        => /\ resp.status = 400
           /\ calls = <<>>
           /\ results = NoResults
           /\ response = NoResponse
           /\ index = prevIndex

\* an empty query sent while the index holds records
C8_Witness ==
    /\ Queried
    /\ req = JsonObject([query |-> <<>>])
    /\ resp.status = 400
    /\ index # <<>>

\* C9: the context is the text fields of the matches the index returned, in
\* the index's order, joined by single newlines, at most top_k of them; with
\* no matches (or no matches field) it is the empty string and the retrieval
\* raises nothing; the index is left as it was.
C9_ContextIsRankedTexts ==
    (Queried /\ results.returned)
        => LET texts == [k \in 1..Len(results.matches) |->
                            index[results.matches[k]].metadata.text]
           IN  /\ Len(results.matches) <= DefaultTopK
               /\ context = Interleave("\n", texts)
               /\ (results.matches = <<>> => context = <<>>)
               /\ Called("requests.post")
               /\ index = prevIndex

\* three of four stored chunks returned, not in the order of their ids
C9_Witness ==
    /\ Queried
    /\ results.returned
    /\ Len(results.matches) = 3
    /\ Cardinality(DOMAIN index) = 4
    /\ results.matches[1] = RecordId(<<"x">>, 2)
    /\ results.matches[3] = RecordId(<<"x">>, 0)

====
